---- MODULE Spec2Model ----
\* Model of pymatgen/entries/compatibility.py: the correction rules, the
\* rule sets (CorrectionsList and its presets), the aqueous free-energy
\* engine, Compatibility.process_entry / process_entries and the audit
\* (get_explanation_dict / explain).
\*
\* Energies are integers in micro-eV (1 eV = 1000000), so that every numeric
\* constant of the source is represented exactly; arithmetic is exact
\* (floating-point rounding is not modelled).
EXTENDS Integers, Sequences, FiniteSets, TLC

VARIABLES
    entries,   \* the caller's entries (a sequence; each entry is mutated in place)
    calls,     \* the last two process_entry invocations (most recent last)
    ncalls,    \* number of process_entry invocations made so far
    batch,     \* outcome of the last process_entries call
    probe,     \* the last evaluation of a rule or of a rule list on the entry
    audit      \* outcome of the last get_explanation_dict / explain call

vars == <<entries, calls, ncalls, batch, probe, audit>>

\* ---------------------------------------------------------------- bounds
MaxCalls == 3      \* process_entry calls made on the entry in Spec
MaxBatch == 3      \* longest batch handed to process_entries in SpecBatch
MaxRounds == 2     \* process_entries calls made on the batch in SpecBatch
MaxAudits == 2     \* audit calls made on the entry in SpecExplain

\* ------------------------------------------------------- python helpers
EmptyDict == [k \in {} |-> 0]

Min(a, b) == IF a <= b THEN a ELSE b

RECURSIVE SumSeq(_)
SumSeq(s) == IF s = <<>> THEN 0 ELSE Head(s) + SumSeq(Tail(s))

RECURSIVE SumFcn(_)
\* sum of the values of a dict
SumFcn(f) ==
    IF DOMAIN f = {} THEN 0
    ELSE LET k == CHOOSE x \in DOMAIN f : TRUE
         IN f[k] + SumFcn([x \in DOMAIN f \ {k} |-> f[x]])

\* dict.get(k, default)
DictGet(d, k, default) == IF k \in DOMAIN d THEN d[k] ELSE default

\* d[k] = v on a dict
DictPut(d, k, v) == [x \in DOMAIN d \cup {k} |-> IF x = k THEN v ELSE d[x]]

\* An insertion-ordered dict (the mapping a rule set returns) is a sequence
\* of [k, v] pairs with distinct keys; OrdSet is corrections[k] = v.
OrdHas(od, k) == \E i \in 1..Len(od) : od[i].k = k
OrdSet(od, k, v) ==
    IF OrdHas(od, k)
    THEN [i \in 1..Len(od) |-> IF od[i].k = k THEN [k |-> k, v |-> v] ELSE od[i]]
    ELSE Append(od, [k |-> k, v |-> v])
OrdGet(od, k, default) ==
    IF OrdHas(od, k) THEN (CHOOSE p \in {od[i] : i \in 1..Len(od)} : p.k = k).v
    ELSE default
OrdValues(od) == [i \in 1..Len(od) |-> od[i].v]
OrdAsDict(od) == [k \in {od[i].k : i \in 1..Len(od)} |-> OrdGet(od, k, 0)]

\* -------------------------------------------- external collaborators
\* Compositions (pymatgen Composition): element -> amount, with the reduced
\* formula pymatgen reports for it.
Comps ==
    ( "H2"      :> [amt |-> ("H" :> 2),                         rform |-> "H2"]
   @@ "H2O"     :> [amt |-> ("H" :> 2 @@ "O" :> 1),             rform |-> "H2O"]
   @@ "O2"      :> [amt |-> ("O" :> 2),                         rform |-> "O2"]
   @@ "O4"      :> [amt |-> ("O" :> 4),                         rform |-> "O2"]
   @@ "Li2O2"   :> [amt |-> ("Li" :> 2 @@ "O" :> 2),            rform |-> "Li2O2"]
   @@ "LiO2"    :> [amt |-> ("Li" :> 1 @@ "O" :> 2),            rform |-> "LiO2"]
   @@ "LiO3"    :> [amt |-> ("Li" :> 1 @@ "O" :> 3),            rform |-> "LiO3"]
   @@ "Fe2O3"   :> [amt |-> ("Fe" :> 2 @@ "O" :> 3),            rform |-> "Fe2O3"]
   @@ "FeH2O2"  :> [amt |-> ("Fe" :> 1 @@ "H" :> 2 @@ "O" :> 2), rform |-> "Fe(HO)2"]
   @@ "FeS"     :> [amt |-> ("Fe" :> 1 @@ "S" :> 1),            rform |-> "FeS"] )

CompElements(c) == DOMAIN Comps[c].amt                     \* comp.elements
CompAmt(c, el) == DictGet(Comps[c].amt, el, 0)             \* comp[el]
NumAtoms(c) == SumFcn(Comps[c].amt)                        \* comp.num_atoms
ReducedFormula(c) == Comps[c].rform                        \* comp.reduced_formula

\* Element.X (Pauling electronegativity, times 100)
ElementX == ("H" :> 220 @@ "Li" :> 98 @@ "O" :> 344 @@ "Fe" :> 183 @@ "S" :> 258)

\* input_set.CONFIG["POTCAR"]: MPRelaxSet holds {symbol, hash} dicts,
\* MITRelaxSet holds plain symbols.
PotcarSettings(input_set) ==
    IF input_set = "MPRelaxSet"
    THEN [isdict |-> TRUE,
          symbol |-> ("H" :> "H" @@ "Li" :> "Li_sv" @@ "O" :> "O"
                      @@ "Fe" :> "Fe_pv" @@ "S" :> "S"),
          hash   |-> ("H" :> "#H" @@ "Li" :> "#Li_sv" @@ "O" :> "#O"
                      @@ "Fe" :> "#Fe_pv" @@ "S" :> "#S")]
    ELSE [isdict |-> FALSE,
          symbol |-> ("H" :> "H" @@ "Li" :> "Li" @@ "O" :> "O"
                      @@ "Fe" :> "Fe" @@ "S" :> "S"),
          hash   |-> EmptyDict]

\* input_set.CONFIG["INCAR"]["LDAUU"] (Hubbard U, times 10)
LdauU(input_set) ==
    IF input_set = "MPRelaxSet" THEN ("O" :> ("Fe" :> 53))
    ELSE ("O" :> ("Fe" :> 40) @@ "S" :> ("Fe" :> 19))

\* loadfn(config_file): the compatibility yaml tables (micro-eV).  The files
\* are not part of the source; the two tables stand for two configurations,
\* the second with a "hydroxide" key in its oxide table and without sulfide
\* corrections.
Config(name) ==
    IF name = "MP"
    THEN [Name |-> "MP",
          CompoundEnergies |-> ("O2" :> -4935500 @@ "H2" :> -3228750),
          OxideCorrections |-> ("oxide" :> -702290 @@ "peroxide" :> -468800
                                @@ "superoxide" :> -161540 @@ "ozonide" :> 0),
          SulfideCorrections |-> ("sulfide" :> -663500),
          UCorrections |-> ("O" :> ("Fe" :> -2733000)),
          AqueousCompoundEnergies |-> ("O2" :> -4935520 @@ "H2" :> -3229440
                                       @@ "H2O" :> -5192750)]
    ELSE [Name |-> "MIT",
          CompoundEnergies |-> ("O2" :> -4000000),
          OxideCorrections |-> ("oxide" :> -660000 @@ "peroxide" :> -440000
                                @@ "superoxide" :> -150000 @@ "ozonide" :> -50000
                                @@ "hydroxide" :> -100000),
          SulfideCorrections |-> EmptyDict,
          UCorrections |-> ("O" :> ("Fe" :> -1723000) @@ "S" :> ("Fe" :> -1113000)),
          AqueousCompoundEnergies |-> ("O2" :> -4940000 @@ "H2" :> -3230000
                                       @@ "H2O" :> -5190000)]

\* ------------------------------------------------------------- entries
\* A ComputedEntry.  "absent" marks a key that is not in parameters / data;
\* ea_present tells whether data holds the key "energy_adjustments", ea is
\* the ledger {source: {label: value}}.
\* potcar_spec is a list of [titel, hash] records (titel split in words),
\* potcar_symbols a list of symbols (split in words); NoList is an absent
\* key.  structure tells whether the entry has a structure and, if so, the
\* classification the structure analyzer gives for it.
NoList == [present |-> FALSE, items |-> <<>>]
List(items) == [present |-> TRUE, items |-> items]
NoStructure == [present |-> FALSE, ox_type |-> "None", nbonds |-> 0, sf_type |-> "None"]

MkEntry(id, comp, e0, run_type, hubbards, spec, symbols, oxide, sulfide, structure) ==
    [entry_id |-> id, composition |-> comp, uncorrected_energy |-> e0,
     correction |-> 0, ea_present |-> FALSE, ea |-> EmptyDict,
     run_type |-> run_type, hubbards |-> hubbards,
     potcar_spec |-> spec, potcar_symbols |-> symbols,
     oxide_type |-> oxide, sulfide_type |-> sulfide, structure |-> structure]

Energy(e) == e.uncorrected_energy + e.correction        \* entry.energy

\* -------------------------------------------------------------- rules
\* A Correction instance: its class (kind) and constructor arguments.
Rule(kind, config, input_set, flag, compat_type) ==
    [kind |-> kind, config |-> config, input_set |-> input_set,
     flag |-> flag, compat_type |-> compat_type]

PotcarCorrection(input_set, check_hash) == Rule("Potcar", "-", input_set, check_hash, "-")
GasCorrection(config) == Rule("Gas", config, "-", FALSE, "-")
AnionCorrection(config, correct_peroxide) == Rule("Anion", config, "-", correct_peroxide, "-")
UCorrection(config, input_set, compat_type) == Rule("U", config, input_set, FALSE, compat_type)
AqueousCorrection(config) == Rule("Aqueous", config, "-", FALSE, "-")

\* str(c): the label under which the rule's value is recorded
RuleStr(c) ==
    CASE c.kind = "Potcar" ->
            IF c.input_set = "MPRelaxSet" THEN "MPRelaxSet Potcar Correction"
            ELSE "MITRelaxSet Potcar Correction"
      [] c.kind = "Gas" ->
            IF Config(c.config).Name = "MP" THEN "MP Gas Correction"
            ELSE "MIT Gas Correction"
      [] c.kind = "Anion" ->
            IF Config(c.config).Name = "MP" THEN "MP Anion Correction"
            ELSE "MIT Anion Correction"
      [] c.kind = "Aqueous" ->
            IF Config(c.config).Name = "MP" THEN "MP Aqueous Correction"
            ELSE "MIT Aqueous Correction"
      [] c.kind = "U" ->
            IF Config(c.config).Name = "MP"
            THEN (IF c.compat_type = "Advanced" THEN "MP Advanced Correction"
                  ELSE "MP GGA Correction")
            ELSE (IF c.compat_type = "Advanced" THEN "MIT Advanced Correction"
                  ELSE "MIT GGA Correction")

\* outcome of a call: a returned value or a raised exception
Ret(v) == [exc |-> "none", val |-> v]
Raise(x) == [exc |-> x, val |-> 0]

\* ---- PotcarCorrection.__init__: self.valid_potcars
ValidPotcars(c) ==
    LET potcar_settings == PotcarSettings(c.input_set)
    IN IF potcar_settings.isdict
       THEN (IF c.flag THEN potcar_settings.hash ELSE potcar_settings.symbol)
       ELSE potcar_settings.symbol

\* PotcarCorrection.__init__ raises ValueError for this combination
PotcarConstructible(input_set, check_hash) ==
    PotcarSettings(input_set).isdict \/ ~check_hash

\* the potcar rule accepting declared identifiers beyond the expected ones
PotcarGetCorrectionSubset(c, entry) ==
    LET spec == entry.potcar_spec
        has_spec == spec.present /\ Len(spec.items) > 0
        syms == entry.potcar_symbols
        expected == {DictGet(ValidPotcars(c), el, "None") :
                        el \in CompElements(entry.composition)}
        check(psp_settings) ==
            IF ~(expected \subseteq psp_settings) THEN Raise("CompatibilityError")
            ELSE Ret(0)
    IN IF c.flag
       THEN IF has_spec
            THEN check({spec.items[i].hash : i \in 1..Len(spec.items)})
            ELSE Raise("ValueError")
       ELSE IF has_spec
            THEN check({spec.items[i].titel[2] : i \in 1..Len(spec.items)})
            ELSE IF ~syms.present
                 THEN Raise("KeyError")
                 ELSE check({syms.items[i][2] : i \in 1..Len(syms.items)})

\* ---- PotcarCorrection.get_correction
PotcarGetCorrection(c, entry) ==
    LET spec == entry.potcar_spec
        has_spec == spec.present /\ Len(spec.items) > 0
        syms == entry.potcar_symbols
        expected == {DictGet(ValidPotcars(c), el, "None") :
                        el \in CompElements(entry.composition)}
        check(psp_settings) ==
            IF expected # psp_settings THEN Raise("CompatibilityError") ELSE Ret(0)
    IN IF c.flag
       THEN IF has_spec
            THEN check({spec.items[i].hash : i \in 1..Len(spec.items)})
            ELSE Raise("ValueError")
       ELSE IF has_spec
            THEN check({spec.items[i].titel[2] : i \in 1..Len(spec.items)})
            ELSE IF ~syms.present
                 THEN Raise("KeyError")
                 ELSE check({syms.items[i][2] : i \in 1..Len(syms.items)})

\* the number of formula units of a composition: atoms over the atoms of
\* its reduced formula
FormulaUnits(comp) == IF comp = "O4" THEN 2 ELSE 1

\* the gas rule with the table value taken per formula unit
GasGetCorrectionPerFormulaUnit(c, entry) ==
    LET cpd_energies == Config(c.config).CompoundEnergies
        rform == ReducedFormula(entry.composition)
    IN IF rform \in DOMAIN cpd_energies
       THEN Ret(cpd_energies[rform] * FormulaUnits(entry.composition)
                - entry.uncorrected_energy)
       ELSE Ret(0)

\* ---- GasCorrection.get_correction
GasGetCorrection(c, entry) ==
    LET cpd_energies == Config(c.config).CompoundEnergies
        rform == ReducedFormula(entry.composition)
    IN IF rform \in DOMAIN cpd_energies
       THEN Ret(cpd_energies[rform] * NumAtoms(entry.composition)
                - entry.uncorrected_energy)
       ELSE Ret(0)

\* ---- UCorrection class attributes
common_peroxides == {"Li2O2", "Na2O2", "K2O2", "Cs2O2", "Rb2O2", "BeO2",
                     "MgO2", "CaO2", "SrO2", "BaO2"}
common_superoxides == {"LiO2", "NaO2", "KO2", "RbO2", "CsO2"}
ozonides == {"LiO3", "NaO3", "KO3", "NaO5"}

\* ---- AnionCorrection.get_correction
AnionSulfur(c, entry) ==
    LET sulfide_correction == Config(c.config).SulfideCorrections
        comp == entry.composition
        sf_type == IF entry.sulfide_type # "absent" THEN entry.sulfide_type
                   ELSE IF entry.structure.present THEN entry.structure.sf_type
                   ELSE "sulfide"
    IN IF "S" \in CompElements(comp) /\ sf_type \in DOMAIN sulfide_correction
       THEN sulfide_correction[sf_type] * CompAmt(comp, "S")
       ELSE 0

\* the oxygen part with a formula fallback that takes the plain oxide value
\* for every multi-element composition, known formulas included
AnionOxygenOxideFirst(c, entry) ==
    LET oxide_correction == Config(c.config).OxideCorrections
        comp == entry.composition
        nO == CompAmt(comp, "O")
        rform == ReducedFormula(comp)
    IN IF "O" \notin CompElements(comp) THEN 0
       ELSE IF ~c.flag THEN oxide_correction["oxide"] * nO
       ELSE IF entry.oxide_type # "absent"
            THEN (IF entry.oxide_type \in DOMAIN oxide_correction
                  THEN oxide_correction[entry.oxide_type] * nO ELSE 0)
               + (IF entry.oxide_type = "hydroxide"
                  THEN oxide_correction["oxide"] * nO ELSE 0)
       ELSE IF entry.structure.present
            THEN IF entry.structure.ox_type \in DOMAIN oxide_correction
                 THEN oxide_correction[entry.structure.ox_type] * entry.structure.nbonds
                 ELSE IF entry.structure.ox_type = "hydroxide"
                      THEN oxide_correction["oxide"] * nO
                      ELSE 0
       ELSE IF Cardinality(CompElements(comp)) > 1 THEN oxide_correction["oxide"] * nO
       ELSE IF rform \in common_peroxides THEN oxide_correction["peroxide"] * nO
       ELSE IF rform \in common_superoxides THEN oxide_correction["superoxide"] * nO
       ELSE IF rform \in ozonides THEN oxide_correction["ozonide"] * nO
       ELSE 0

AnionOxygen(c, entry) ==
    LET oxide_correction == Config(c.config).OxideCorrections
        comp == entry.composition
        nO == CompAmt(comp, "O")
        rform == ReducedFormula(comp)
    IN IF "O" \notin CompElements(comp) THEN 0
       ELSE IF ~c.flag THEN oxide_correction["oxide"] * nO
       ELSE IF entry.oxide_type # "absent"
            THEN (IF entry.oxide_type \in DOMAIN oxide_correction
                  THEN oxide_correction[entry.oxide_type] * nO ELSE 0)
               + (IF entry.oxide_type = "hydroxide"
                  THEN oxide_correction["oxide"] * nO ELSE 0)
       ELSE IF entry.structure.present
            THEN IF entry.structure.ox_type \in DOMAIN oxide_correction
                 THEN oxide_correction[entry.structure.ox_type] * entry.structure.nbonds
                 ELSE IF entry.structure.ox_type = "hydroxide"
                      THEN oxide_correction["oxide"] * nO
                      ELSE 0
       ELSE IF rform \in common_peroxides THEN oxide_correction["peroxide"] * nO
       ELSE IF rform \in common_superoxides THEN oxide_correction["superoxide"] * nO
       ELSE IF rform \in ozonides THEN oxide_correction["ozonide"] * nO
       ELSE IF Cardinality(CompElements(comp)) > 1 THEN oxide_correction["oxide"] * nO
       ELSE 0

\* the warning of the formula-matching fallback is emitted
AnionWarns(c, entry) ==
    /\ Cardinality(CompElements(entry.composition)) # 1
    /\ "O" \in CompElements(entry.composition)
    /\ c.flag
    /\ entry.oxide_type = "absent"
    /\ ~entry.structure.present

AnionGetCorrection(c, entry) ==
    IF Cardinality(CompElements(entry.composition)) = 1
    THEN Ret(0)
    ELSE Ret(AnionSulfur(c, entry) + AnionOxygen(c, entry))

\* ---- AqueousCorrection.get_correction
\* 0.5 * 2.46 * min(H / 2.0, O) eV = AqueousHalfWater * min(H, 2 * O) micro-eV
AqueousHalfWater == 615000

AqueousGetCorrection(c, entry) ==
    LET comp == entry.composition
        rform == ReducedFormula(comp)
        cpdenergies == Config(c.config).AqueousCompoundEnergies
        base == IF rform \in DOMAIN cpdenergies
                THEN IF rform \in {"H2", "H2O"}
                     THEN cpdenergies[rform] * NumAtoms(comp)
                          - entry.uncorrected_energy - entry.correction
                     ELSE cpdenergies[rform] * NumAtoms(comp)
                ELSE 0
        water == IF rform # "H2O"
                 THEN AqueousHalfWater * Min(CompAmt(comp, "H"), 2 * CompAmt(comp, "O"))
                 ELSE 0
    IN Ret(base + water)

\* the expected Hubbard parameters taken from the input set whatever the
\* compat_type
USettingsIgnoreCompatType(c) == LdauU(c.input_set)

\* ---- UCorrection.__init__: self.u_settings, self.u_corrections
USettings(c) == IF c.compat_type = "Advanced" THEN LdauU(c.input_set) ELSE EmptyDict
UCorrections(c) ==
    IF c.compat_type = "Advanced" THEN Config(c.config).UCorrections ELSE EmptyDict

\* ---- UCorrection.get_correction
MostElectroneg(comp) ==
    CHOOSE el \in CompElements(comp) :
        \A other \in CompElements(comp) : ElementX[other] <= ElementX[el]

\* the Hubbard rule comparing only the elements the preset lists
UGetCorrectionListedOnly(c, entry) ==
    LET comp == entry.composition
        run_type == IF entry.run_type = "absent" THEN "GGA" ELSE entry.run_type
        calc_u == entry.hubbards
        most_electroneg == MostElectroneg(comp)
        ucorr == DictGet(UCorrections(c), most_electroneg, EmptyDict)
        usettings == DictGet(USettings(c), most_electroneg, EmptyDict)
        bad == {sym \in CompElements(comp) \cap DOMAIN usettings :
                    DictGet(calc_u, sym, 0) # usettings[sym]}
        terms == [sym \in CompElements(comp) \cap DOMAIN ucorr |->
                    ucorr[sym] * CompAmt(comp, sym)]
    IN IF run_type = "HF" THEN Raise("CompatibilityError")
       ELSE IF bad # {} THEN Raise("CompatibilityError")
       ELSE Ret(SumFcn(terms))

UGetCorrection(c, entry) ==
    LET comp == entry.composition
        run_type == IF entry.run_type = "absent" THEN "GGA" ELSE entry.run_type
        calc_u == entry.hubbards
        most_electroneg == MostElectroneg(comp)
        ucorr == DictGet(UCorrections(c), most_electroneg, EmptyDict)
        usettings == DictGet(USettings(c), most_electroneg, EmptyDict)
        bad == {sym \in CompElements(comp) :
                    DictGet(calc_u, sym, 0) # DictGet(usettings, sym, 0)}
        terms == [sym \in CompElements(comp) \cap DOMAIN ucorr |->
                    ucorr[sym] * CompAmt(comp, sym)]
    IN IF run_type = "HF" THEN Raise("CompatibilityError")
       ELSE IF bad # {} THEN Raise("CompatibilityError")
       ELSE Ret(SumFcn(terms))

\* ---- Correction.get_correction, dispatched on the rule's class
GetCorrection(c, entry) ==
    CASE c.kind = "Potcar"  -> PotcarGetCorrection(c, entry)
      [] c.kind = "Gas"     -> GasGetCorrection(c, entry)
      [] c.kind = "Anion"   -> AnionGetCorrection(c, entry)
      [] c.kind = "Aqueous" -> AqueousGetCorrection(c, entry)
      [] c.kind = "U"       -> UGetCorrection(c, entry)

\* ------------------------------------------------------------ engines
\* A Compatibility instance: its class name (the ledger's source key), the
\* clean flag, and either the rule list (CorrectionsList and subclasses) or
\* the aqueous free-energy scheme.
Engine(cls, clean, corrections) == [cls |-> cls, clean |-> clean, corrections |-> corrections]

CorrectionsList(corrections, clean) == Engine("CorrectionsList", clean, corrections)

MaterialsProjectCompatibility(compat_type, correct_peroxide, check_potcar_hash) ==
    Engine("MaterialsProjectCompatibility", TRUE,
           << PotcarCorrection("MPRelaxSet", check_potcar_hash),
              GasCorrection("MP"),
              AnionCorrection("MP", correct_peroxide),
              UCorrection("MP", "MPRelaxSet", compat_type) >>)

MITCompatibility(compat_type, correct_peroxide, check_potcar_hash) ==
    Engine("MITCompatibility", TRUE,
           << PotcarCorrection("MITRelaxSet", check_potcar_hash),
              GasCorrection("MIT"),
              AnionCorrection("MIT", correct_peroxide),
              UCorrection("MIT", "MITRelaxSet", compat_type) >>)

MITAqueousCompatibility(compat_type, correct_peroxide, check_potcar_hash) ==
    Engine("MITAqueousCompatibility", TRUE,
           << PotcarCorrection("MITRelaxSet", check_potcar_hash),
              GasCorrection("MIT"),
              AnionCorrection("MIT", correct_peroxide),
              UCorrection("MIT", "MITRelaxSet", compat_type),
              AqueousCorrection("MIT") >>)

MaterialsProjectAqueousCompatibility(clean) ==
    Engine("MaterialsProjectAqueousCompatibility", clean, <<>>)

\* ---- MaterialsProjectAqueousCompatibility.__init__ (micro-eV)
MU_H2O == -2458300
h2o_energy == -14885200
o2_energy == -4927600
previous_correction_per_h2o == -702290
cpd_entropies == ( "O2" :> 316731 @@ "N2" :> 295729 @@ "F2" :> 313025
                @@ "Cl2" :> 344373 @@ "Br" :> 235039 @@ "Hg" :> 234421
                @@ "H2O" :> 215891 )
h2_energy ==
    ((h2o_energy - cpd_entropies["H2O"]) - (o2_energy - cpd_entropies["O2"]) - MU_H2O) \div 2
fit_h2o_energy ==
    (2 * h2_energy + (o2_energy - cpd_entropies["O2"]) + MU_H2O) \div 3

\* ---- MaterialsProjectAqueousCompatibility.get_corrections_dict
AqueousGetCorrectionsDict(entry) ==
    LET comp == entry.composition
        rform == ReducedFormula(comp)
        pinned == IF rform = "H2" THEN h2_energy * NumAtoms(comp) - Energy(entry)
                  ELSE IF rform = "H2O" THEN fit_h2o_energy * NumAtoms(comp) - Energy(entry)
                  ELSE 0
        entropy == IF rform \notin {"H2", "H2O"} /\ rform \in DOMAIN cpd_entropies
                   THEN -1 * cpd_entropies[rform] * NumAtoms(comp)
                   ELSE 0
        hydrate_adjustment == 0
        nH2O == Min(CompAmt(comp, "H") \div 2, CompAmt(comp, "O"))
        water == IF rform # "H2O" /\ nH2O > 0
                 THEN -1 * previous_correction_per_h2o + -1 * MU_H2O * nH2O
                 ELSE 0
    IN [exc |-> "none",
        pairs |-> << [k |-> "Fit H2 and H2O energy to experiment", v |-> pinned + water],
                     [k |-> "Compound entropy at room temperature", v |-> entropy],
                     [k |-> "Hydrate energy adjustment", v |-> hydrate_adjustment] >>]

\* the rule loop with a rule that raises CompatibilityError skipped
RECURSIVE ListGetCorrectionsDictSkipFailed(_, _, _, _)
ListGetCorrectionsDictSkipFailed(corrections, entry, i, acc) ==
    IF i > Len(corrections) THEN [exc |-> "none", pairs |-> acc]
    ELSE LET c == corrections[i]
             r == GetCorrection(c, entry)
         IN IF r.exc = "CompatibilityError"
            THEN ListGetCorrectionsDictSkipFailed(corrections, entry, i + 1, acc)
            ELSE IF r.exc # "none" THEN [exc |-> r.exc, pairs |-> <<>>]
            ELSE ListGetCorrectionsDictSkipFailed(corrections, entry, i + 1,
                    IF r.val # 0 THEN OrdSet(acc, RuleStr(c), r.val) ELSE acc)

\* the rule loop without the test of line 622: zero values are recorded too
RECURSIVE ListGetCorrectionsDictKeepZero(_, _, _, _)
ListGetCorrectionsDictKeepZero(corrections, entry, i, acc) ==
    IF i > Len(corrections) THEN [exc |-> "none", pairs |-> acc]
    ELSE LET c == corrections[i]
             r == GetCorrection(c, entry)
         IN IF r.exc # "none" THEN [exc |-> r.exc, pairs |-> <<>>]
            ELSE ListGetCorrectionsDictKeepZero(corrections, entry, i + 1,
                    OrdSet(acc, RuleStr(c), r.val))

\* ---- CorrectionsList.get_corrections_dict
RECURSIVE ListGetCorrectionsDict(_, _, _, _)
ListGetCorrectionsDict(corrections, entry, i, acc) ==
    IF i > Len(corrections) THEN [exc |-> "none", pairs |-> acc]
    ELSE LET c == corrections[i]
             r == GetCorrection(c, entry)
         IN IF r.exc # "none" THEN [exc |-> r.exc, pairs |-> <<>>]
            ELSE ListGetCorrectionsDict(corrections, entry, i + 1,
                    IF r.val # 0 THEN OrdSet(acc, RuleStr(c), r.val) ELSE acc)

\* ---- Compatibility.get_corrections_dict
GetCorrectionsDict(engine, entry) ==
    IF engine.cls = "MaterialsProjectAqueousCompatibility"
    THEN AqueousGetCorrectionsDict(entry)
    ELSE ListGetCorrectionsDict(engine.corrections, entry, 1, <<>>)

\* ---- Compatibility.validate_corrections, lines 526-530
DocumentedCorrection(entry) ==
    IF entry.ea_present
    THEN SumFcn([k1 \in DOMAIN entry.ea |-> SumFcn(entry.ea[k1])])
    ELSE 0

\* a validation that repairs the running total instead of warning only
ValidateCorrectionsRepair(entry) ==
    [entry |-> [entry EXCEPT !.correction = DocumentedCorrection(entry)],
     warned |-> entry.correction # DocumentedCorrection(entry)]

\* ---- Compatibility.validate_corrections
ValidateCorrections(entry) ==
    [entry |-> entry, warned |-> entry.correction # DocumentedCorrection(entry)]

\* a reset that zeroes the running total and keeps the ledger
CleanEntryKeepLedger(engine, entry) ==
    IF engine.clean THEN [entry EXCEPT !.correction = 0] ELSE entry

\* a reset that deletes the whole data dict instead of the ledger key
CleanEntryWholeData(engine, entry) ==
    IF engine.clean
    THEN [entry EXCEPT !.correction = 0, !.ea_present = FALSE, !.ea = EmptyDict,
                       !.oxide_type = "absent", !.sulfide_type = "absent"]
    ELSE entry

\* ---- Compatibility.process_entry, lines 451-457
CleanEntry(engine, entry) ==
    IF engine.clean
    THEN [entry EXCEPT !.correction = 0, !.ea_present = FALSE, !.ea = EmptyDict]
    ELSE entry

\* entry.data["energy_adjustments"].get(k) == v  (line 470): the lookup is
\* made in the outer mapping, whose values are the per-source dicts
OuterGetEquals(ea, k, v) ==
    LET got == IF k \in DOMAIN ea THEN [t |-> "dict", n |-> 0] ELSE [t |-> "None", n |-> 0]
    IN got = [t |-> "number", n |-> v]

\* the merge loop with the running total left alone when a label is added
\* under a source key that is already in the ledger
RECURSIVE MergeCorrectionsNoAdd(_, _, _, _)
MergeCorrectionsNoAdd(cls, entry, corrections, i) ==
    IF i > Len(corrections) THEN [entry |-> entry, exc |-> "none"]
    ELSE
      LET k == corrections[i].k
          v == corrections[i].v
          ea == entry.ea
      IN IF entry.ea_present /\ DOMAIN ea # {}
         THEN IF cls \in DOMAIN ea /\ DOMAIN ea[cls] # {}
              THEN IF k \in DOMAIN ea[cls] /\ ea[cls][k] # 0
                   THEN IF OuterGetEquals(ea, k, v)
                        THEN MergeCorrectionsNoAdd(cls, entry, corrections, i + 1)
                        ELSE [entry |-> entry, exc |-> "CompatibilityError"]
                   ELSE MergeCorrectionsNoAdd(cls,
                            [entry EXCEPT !.ea = DictPut(ea, cls, DictPut(ea[cls], k, v))],
                            corrections, i + 1)
              ELSE MergeCorrectionsNoAdd(cls,
                       [entry EXCEPT !.correction = @ + v,
                                     !.ea = DictPut(ea, cls, (k :> v))],
                       corrections, i + 1)
         ELSE MergeCorrectionsNoAdd(cls,
                  [entry EXCEPT !.correction = @ + v,
                                !.ea_present = TRUE,
                                !.ea = (cls :> (k :> v))],
                  corrections, i + 1)

\* the merge loop starting a new ledger when the engine's own source key is
\* not in the ledger yet
RECURSIVE MergeCorrectionsReplaceLedger(_, _, _, _)
MergeCorrectionsReplaceLedger(cls, entry, corrections, i) ==
    IF i > Len(corrections) THEN [entry |-> entry, exc |-> "none"]
    ELSE
      LET k == corrections[i].k
          v == corrections[i].v
          ea == entry.ea
      IN IF entry.ea_present /\ DOMAIN ea # {}
         THEN IF cls \in DOMAIN ea /\ DOMAIN ea[cls] # {}
              THEN IF k \in DOMAIN ea[cls] /\ ea[cls][k] # 0
                   THEN IF OuterGetEquals(ea, k, v)
                        THEN MergeCorrectionsReplaceLedger(cls, entry, corrections, i + 1)
                        ELSE [entry |-> entry, exc |-> "CompatibilityError"]
                   ELSE MergeCorrectionsReplaceLedger(cls,
                            [entry EXCEPT !.correction = @ + v,
                                          !.ea = DictPut(ea, cls, DictPut(ea[cls], k, v))],
                            corrections, i + 1)
              ELSE MergeCorrectionsReplaceLedger(cls,
                       [entry EXCEPT !.correction = @ + v,
                                     !.ea = (cls :> (k :> v))],
                       corrections, i + 1)
         ELSE MergeCorrectionsReplaceLedger(cls,
                  [entry EXCEPT !.correction = @ + v,
                                !.ea_present = TRUE,
                                !.ea = (cls :> (k :> v))],
                  corrections, i + 1)

\* ---- Compatibility.process_entry, lines 465-501: the merge loop
RECURSIVE MergeCorrections(_, _, _, _)
MergeCorrections(cls, entry, corrections, i) ==
    IF i > Len(corrections) THEN [entry |-> entry, exc |-> "none"]
    ELSE
      LET k == corrections[i].k
          v == corrections[i].v
          ea == entry.ea
      IN IF entry.ea_present /\ DOMAIN ea # {}
         THEN IF cls \in DOMAIN ea /\ DOMAIN ea[cls] # {}
              THEN IF k \in DOMAIN ea[cls] /\ ea[cls][k] # 0
                   THEN IF OuterGetEquals(ea, k, v)
                        THEN MergeCorrections(cls, entry, corrections, i + 1)
                        ELSE [entry |-> entry, exc |-> "CompatibilityError"]
                   ELSE MergeCorrections(cls,
                            [entry EXCEPT !.correction = @ + v,
                                          !.ea = DictPut(ea, cls, DictPut(ea[cls], k, v))],
                            corrections, i + 1)
              ELSE MergeCorrections(cls,
                       [entry EXCEPT !.correction = @ + v,
                                     !.ea = DictPut(ea, cls, (k :> v))],
                       corrections, i + 1)
         ELSE MergeCorrections(cls,
                  [entry EXCEPT !.correction = @ + v,
                                !.ea_present = TRUE,
                                !.ea = (cls :> (k :> v))],
                  corrections, i + 1)

\* process_entry without its except clause: CompatibilityError propagates
ProcessEntryCallNoCatch(engine, entry) ==
    LET cleaned == CleanEntry(engine, entry)
        val == ValidateCorrections(cleaned)
        cd == GetCorrectionsDict(engine, val.entry)
        merged == MergeCorrections(engine.cls, val.entry, cd.pairs, 1)
        base == [engine |-> engine, pre |-> entry, validated |-> val.entry,
                 warned |-> val.warned, cd |-> cd]
    IN IF cd.exc # "none"
       THEN base @@ [post |-> val.entry, ret |-> "raise", exc |-> cd.exc]
       ELSE IF merged.exc = "CompatibilityError"
       THEN base @@ [post |-> merged.entry, ret |-> "raise", exc |-> "CompatibilityError"]
       ELSE base @@ [post |-> merged.entry, ret |-> "entry", exc |-> "none"]

\* process_entry restoring the entry it was given when it rejects it
ProcessEntryCallRollback(engine, entry) ==
    LET cleaned == CleanEntry(engine, entry)
        val == ValidateCorrections(cleaned)
        cd == GetCorrectionsDict(engine, val.entry)
        merged == MergeCorrections(engine.cls, val.entry, cd.pairs, 1)
        base == [engine |-> engine, pre |-> entry, validated |-> val.entry,
                 warned |-> val.warned, cd |-> cd]
    IN IF cd.exc = "CompatibilityError"
       THEN base @@ [post |-> entry, ret |-> "None", exc |-> "none"]
       ELSE IF cd.exc # "none"
       THEN base @@ [post |-> val.entry, ret |-> "raise", exc |-> cd.exc]
       ELSE IF merged.exc = "CompatibilityError"
       THEN base @@ [post |-> entry, ret |-> "None", exc |-> "none"]
       ELSE base @@ [post |-> merged.entry, ret |-> "entry", exc |-> "none"]

\* process_entry validating the entry before the reset
ProcessEntryCallValidateFirst(engine, entry) ==
    LET val == ValidateCorrections(entry)
        cleaned == CleanEntry(engine, val.entry)
        cd == GetCorrectionsDict(engine, cleaned)
        merged == MergeCorrections(engine.cls, cleaned, cd.pairs, 1)
        base == [engine |-> engine, pre |-> entry, validated |-> val.entry,
                 warned |-> val.warned, cd |-> cd]
    IN IF cd.exc = "CompatibilityError"
       THEN base @@ [post |-> cleaned, ret |-> "None", exc |-> "none"]
       ELSE IF cd.exc # "none"
       THEN base @@ [post |-> cleaned, ret |-> "raise", exc |-> cd.exc]
       ELSE IF merged.exc = "CompatibilityError"
       THEN base @@ [post |-> merged.entry, ret |-> "None", exc |-> "none"]
       ELSE base @@ [post |-> merged.entry, ret |-> "entry", exc |-> "none"]

\* ---- Compatibility.process_entry
\* The record tells what the call did: the entry before (pre), after the
\* validation (validated) and at the end (post), whether the provenance
\* warning was emitted, the outcome of get_corrections_dict (cd), and the
\* result: ret is "entry", "None", or "raise" with the exception in exc.
ProcessEntryCall(engine, entry) ==
    LET cleaned == CleanEntry(engine, entry)
        val == ValidateCorrections(cleaned)
        cd == GetCorrectionsDict(engine, val.entry)
        merged == MergeCorrections(engine.cls, val.entry, cd.pairs, 1)
        base == [engine |-> engine, pre |-> entry, validated |-> val.entry,
                 warned |-> val.warned, cd |-> cd]
    IN IF cd.exc = "CompatibilityError"
       THEN base @@ [post |-> val.entry, ret |-> "None", exc |-> "none"]
       ELSE IF cd.exc # "none"
       THEN base @@ [post |-> val.entry, ret |-> "raise", exc |-> cd.exc]
       ELSE IF merged.exc = "CompatibilityError"
       THEN base @@ [post |-> merged.entry, ret |-> "None", exc |-> "none"]
       ELSE base @@ [post |-> merged.entry, ret |-> "entry", exc |-> "none"]

\* ---- Compatibility.process_entries: list(filter(None, map(process_entry, entries)))
\* map(): the call made for each entry.  The entries are separate objects,
\* so the call on one entry does not depend on the calls made before it.
MapProcessEntry(engine, es) ==
    [i \in 1..Len(es) |-> ProcessEntryCall(engine, es[i])]

\* a filter that returns the surviving entries last first
FilterNoneReversed(results) ==
    LET kept == SelectSeq(results, LAMBDA x : x # 0)
    IN [j \in 1..Len(kept) |-> kept[Len(kept) + 1 - j]]

\* filter(None, ...)
FilterNone(results) == SelectSeq(results, LAMBDA x : x # 0)

\* list() consumes the map in order; an exception that process_entry does
\* not catch ends the call there: the index of the first call that raises,
\* or 0 when none does.
FirstRaise(made) ==
    LET raising == {i \in DOMAIN made : made[i].ret = "raise"}
    IN IF raising = {} THEN 0
       ELSE CHOOSE i \in raising : \A j \in raising : i <= j

\* recs are the process_entry calls made, es the entries as the calls left
\* them, out the returned list (each entry given by its index in the input).
ListFilterMap(engine, es, made, raised) ==
    LET stop == IF raised = 0 THEN Len(es) ELSE raised
    IN [engine |-> engine,
        es |-> [i \in 1..Len(es) |-> IF i <= stop THEN made[i].post ELSE es[i]],
        recs |-> [i \in 1..stop |-> made[i]],
        exc |-> IF raised = 0 THEN "none" ELSE made[raised].exc,
        out |-> IF raised = 0
                THEN FilterNone([i \in 1..stop |-> IF made[i].ret = "entry" THEN i ELSE 0])
                ELSE <<>>]

ConsumeMap(engine, es, made) == ListFilterMap(engine, es, made, FirstRaise(made))

ProcessEntriesCall(engine, es) == ConsumeMap(engine, es, MapProcessEntry(engine, es))

\* the report built by iterating over the computed mapping
ExplanationCorrectionsFromMapping(engine, corr_dict) ==
    [i \in 1..Len(corr_dict) |-> [name |-> corr_dict[i].k, value |-> corr_dict[i].v]]

\* ---- CorrectionsList.get_explanation_dict, lines 653-660: one record per
\* rule of the set, with the value the mapping holds under the rule's label
ExplanationCorrections(engine, corr_dict) ==
    [i \in 1..Len(engine.corrections) |->
        [name |-> RuleStr(engine.corrections[i]),
         value |-> OrdGet(corr_dict, RuleStr(engine.corrections[i]), 0)]]

\* a call of the audit that an exception ended
AuditRaised(op, engine, entry, post, centry, exc) ==
    [op |-> op, engine |-> engine, pre |-> entry, post |-> post, centry |-> centry,
     exc |-> exc, uncorrected_energy |-> 0, corrected_none |-> FALSE,
     corrected_energy |-> 0, corrections |-> <<>>]

\* ---- CorrectionsList.get_explanation_dict, lines 644-661.  centry is the
\* record of the process_entry call of line 643, corr_dict the outcome of
\* get_corrections_dict(entry) of line 654, made on the entry as that call
\* left it.  corrected_none tells that "corrected_energy" is None.
ExplanationDict(engine, entry, centry, corr_dict) ==
    IF centry.ret = "raise"
    THEN AuditRaised("get_explanation_dict", engine, entry, centry.post, "raise", centry.exc)
    ELSE IF corr_dict.exc # "none"
    THEN AuditRaised("get_explanation_dict", engine, entry, centry.post, centry.ret,
                     corr_dict.exc)
    ELSE [op |-> "get_explanation_dict", engine |-> engine, pre |-> entry,
          post |-> centry.post, centry |-> centry.ret, exc |-> "none",
          uncorrected_energy |-> centry.post.uncorrected_energy,
          corrected_none |-> (centry.ret = "None"),
          corrected_energy |-> IF centry.ret = "None" THEN 0 ELSE Energy(centry.post),
          corrections |-> ExplanationCorrections(engine, corr_dict.pairs)]

AfterProcessEntry(engine, entry, centry) ==
    ExplanationDict(engine, entry, centry, GetCorrectionsDict(engine, centry.post))

\* ---- CorrectionsList.get_explanation_dict
GetExplanationDictCall(engine, entry) ==
    AfterProcessEntry(engine, entry, ProcessEntryCall(engine, entry))

\* ---- CorrectionsList.explain, lines 673-685: the prints; "%f" % None of
\* the last one raises TypeError
ListExplainPrint(d) ==
    IF d.exc = "none" /\ d.corrected_none
    THEN [d EXCEPT !.op = "explain", !.exc = "TypeError"]
    ELSE [d EXCEPT !.op = "explain"]

\* ---- Compatibility.explain (the one MaterialsProjectAqueousCompatibility
\* inherits): validate_corrections and prints
BaseExplain(engine, entry) ==
    [op |-> "explain", engine |-> engine, pre |-> entry,
     post |-> ValidateCorrections(entry).entry, centry |-> "-", exc |-> "none",
     uncorrected_energy |-> entry.uncorrected_energy, corrected_none |-> FALSE,
     corrected_energy |-> Energy(entry), corrections |-> <<>>]

\* ---- explain, dispatched on the engine's class
ExplainCall(engine, entry) ==
    IF engine.cls = "MaterialsProjectAqueousCompatibility"
    THEN BaseExplain(engine, entry)
    ELSE ListExplainPrint(GetExplanationDictCall(engine, entry))

\* ------------------------------------------------- the caller's inputs
SpecItem(sym, hash) == [titel |-> <<"PAW_PBE", sym, "06Sep2000">>, hash |-> hash]
SymbolItem(sym) == <<"PAW_PBE", sym, "06Sep2000">>

SpecO == List(<< SpecItem("O", "#O") >>)
SpecH == List(<< SpecItem("H", "#H") >>)
SpecHO == List(<< SpecItem("H", "#H"), SpecItem("O", "#O") >>)
SpecFeO == List(<< SpecItem("Fe_pv", "#Fe_pv"), SpecItem("O", "#O") >>)
SpecLiO == List(<< SpecItem("Li_sv", "#Li_sv"), SpecItem("O", "#O") >>)
SpecFeHO == List(<< SpecItem("Fe_pv", "#Fe_pv"), SpecItem("H", "#H"), SpecItem("O", "#O") >>)
SpecFeS == List(<< SpecItem("Fe_pv", "#Fe_pv"), SpecItem("S", "#S") >>)

\* The entries a caller hands in, before any adjustment
BaseEntries ==
    { MkEntry("o2", "O2", -9860000, "GGA", EmptyDict, SpecO, NoList,
              "absent", "absent", NoStructure),
      MkEntry("o4", "O4", -9000000, "absent", EmptyDict, SpecO, NoList,
              "absent", "absent", NoStructure),
      MkEntry("o2-hf", "O2", -9860000, "HF", EmptyDict, SpecO, NoList,
              "absent", "absent", NoStructure),
      MkEntry("o2-symbols", "O2", -9860000, "GGA", EmptyDict, NoList,
              List(<< SymbolItem("O") >>), "absent", "absent", NoStructure),
      MkEntry("o2-nopotcar", "O2", -9860000, "GGA", EmptyDict, NoList, NoList,
              "absent", "absent", NoStructure),
      MkEntry("o2-badpotcar", "O2", -9860000, "GGA", EmptyDict,
              List(<< SpecItem("O_s", "#O_s") >>), NoList,
              "absent", "absent", NoStructure),
      MkEntry("h2", "H2", -6770000, "GGA", EmptyDict, SpecH, NoList,
              "absent", "absent", NoStructure),
      MkEntry("h2-pinned", "H2", 2 * h2_energy, "GGA", EmptyDict, SpecH, NoList,
              "absent", "absent", NoStructure),
      MkEntry("h2o", "H2O", h2o_energy, "GGA", EmptyDict, SpecHO, NoList,
              "absent", "absent", NoStructure),
      MkEntry("fe2o3-u", "Fe2O3", -67000000, "GGA+U", ("Fe" :> 53), SpecFeO, NoList,
              "oxide", "absent", NoStructure),
      MkEntry("fe2o3-gga", "Fe2O3", -60000000, "GGA", EmptyDict, SpecFeO, NoList,
              "oxide", "absent", NoStructure),
      MkEntry("fe2o3-nopotcar", "Fe2O3", -60000000, "GGA", EmptyDict, NoList, NoList,
              "oxide", "absent", NoStructure),
      MkEntry("li2o2", "Li2O2", -19000000, "GGA", EmptyDict, SpecLiO, NoList,
              "absent", "absent", NoStructure),
      MkEntry("feh2o2", "FeH2O2", -30000000, "GGA+U", ("Fe" :> 53), SpecFeHO, NoList,
              "hydroxide", "absent", NoStructure),
      MkEntry("fes", "FeS", -13000000, "GGA", EmptyDict, SpecFeS, NoList,
              "absent", "absent",
              [present |-> TRUE, ox_type |-> "None", nbonds |-> 0, sf_type |-> "sulfide"]) }

\* The correction and ledger an entry may arrive with: none; a correction
\* of unknown provenance; adjustments recorded by hand or by other tools.
WithAdjustments(entry, correction, present, ea) ==
    [entry EXCEPT !.correction = correction, !.ea_present = present, !.ea = ea]

ArrivingLedgers ==
    { [correction |-> 0, present |-> FALSE, ea |-> EmptyDict],
      [correction |-> 250000, present |-> FALSE, ea |-> EmptyDict],
      [correction |-> 0, present |-> TRUE, ea |-> EmptyDict],
      [correction |-> 100000, present |-> TRUE,
       ea |-> ("legacy" :> ("manual shift" :> 100000))],
      [correction |-> -11000, present |-> TRUE,
       ea |-> ("CorrectionsList" :> ("MP Gas Correction" :> -11000))],
      [correction |-> 300000, present |-> TRUE,
       ea |-> ("CorrectionsList" :> ("MP Gas Correction" :> 500000)
               @@ "legacy" :> ("manual shift" :> 100000))] }

ArrivingEntries ==
    { WithAdjustments(e, a.correction, a.present, a.ea) :
        e \in BaseEntries, a \in ArrivingLedgers }

\* Further entries on which single rules are evaluated: the oxide families
\* of the formula fallback, a classification by structure, run types,
\* Hubbard parameters and method identifiers that match or do not
SpecLiOplain == List(<< SpecItem("Li", "#Li"), SpecItem("O", "#O") >>)

RuleCaseEntries ==
    { MkEntry("lio2", "LiO2", -14000000, "GGA", EmptyDict, SpecLiO, NoList,
              "absent", "absent", NoStructure),
      MkEntry("lio3", "LiO3", -19000000, "GGA", EmptyDict, SpecLiO, NoList,
              "absent", "absent", NoStructure),
      MkEntry("fe2o3-noclass", "Fe2O3", -67000000, "GGA+U", ("Fe" :> 53), SpecFeO, NoList,
              "absent", "absent", NoStructure),
      MkEntry("li2o2-structure", "Li2O2", -19000000, "GGA", EmptyDict, SpecLiO, NoList,
              "absent", "absent",
              [present |-> TRUE, ox_type |-> "peroxide", nbonds |-> 1, sf_type |-> "None"]),
      MkEntry("li2o2-as-oxide", "Li2O2", -19000000, "GGA", EmptyDict, SpecLiO, NoList,
              "oxide", "absent", NoStructure),
      MkEntry("feh2o2-structure", "FeH2O2", -30000000, "GGA+U", ("Fe" :> 53), SpecFeHO,
              NoList, "absent", "absent",
              [present |-> TRUE, ox_type |-> "hydroxide", nbonds |-> 0, sf_type |-> "None"]),
      MkEntry("o2-lda", "O2", -9860000, "LDA", EmptyDict, SpecO, NoList,
              "absent", "absent", NoStructure),
      MkEntry("fe2o3-scan", "Fe2O3", -67000000, "SCAN", ("Fe" :> 53), SpecFeO, NoList,
              "oxide", "absent", NoStructure),
      MkEntry("fe2o3-hf", "Fe2O3", -67000000, "HF", ("Fe" :> 53), SpecFeO, NoList,
              "oxide", "absent", NoStructure),
      MkEntry("fe2o3-u40", "Fe2O3", -66000000, "GGA+U", ("Fe" :> 40), SpecFeO, NoList,
              "oxide", "absent", NoStructure),
      MkEntry("fe2o3-uO", "Fe2O3", -66000000, "GGA+U", ("Fe" :> 53 @@ "O" :> 10), SpecFeO,
              NoList, "oxide", "absent", NoStructure),
      MkEntry("o2-extra", "O2", -9860000, "GGA", EmptyDict, SpecHO, NoList,
              "absent", "absent", NoStructure),
      MkEntry("fe2o3-missing", "Fe2O3", -67000000, "GGA+U", ("Fe" :> 53), SpecO, NoList,
              "oxide", "absent", NoStructure),
      MkEntry("li2o2-plain", "Li2O2", -19000000, "GGA", EmptyDict, SpecLiOplain, NoList,
              "absent", "absent", NoStructure),
      MkEntry("fe2o3-symbols", "Fe2O3", -67000000, "GGA+U", ("Fe" :> 53), NoList,
              List(<< SymbolItem("Fe_pv"), SymbolItem("O") >>),
              "oxide", "absent", NoStructure),
      MkEntry("fe2o3-both", "Fe2O3", -67000000, "GGA+U", ("Fe" :> 53), SpecFeO,
              List(<< SymbolItem("Fe") >>), "oxide", "absent", NoStructure) }

RuleEntries == ArrivingEntries \cup RuleCaseEntries

\* The rule instances evaluated one by one
Rules ==
    { PotcarCorrection("MPRelaxSet", TRUE), PotcarCorrection("MPRelaxSet", FALSE),
      PotcarCorrection("MITRelaxSet", FALSE),
      GasCorrection("MP"), GasCorrection("MIT"),
      AnionCorrection("MP", TRUE), AnionCorrection("MP", FALSE),
      AnionCorrection("MIT", TRUE),
      UCorrection("MP", "MPRelaxSet", "Advanced"), UCorrection("MP", "MPRelaxSet", "GGA"),
      UCorrection("MIT", "MITRelaxSet", "Advanced"),
      AqueousCorrection("MP"), AqueousCorrection("MIT") }

\* The rule lists of the CorrectionsList instances the caller builds
RuleLists ==
    { << GasCorrection("MP") >>,
      << UCorrection("MP", "MPRelaxSet", "Advanced") >>,
      << AnionCorrection("MP", TRUE), UCorrection("MP", "MPRelaxSet", "Advanced") >>,
      << PotcarCorrection("MPRelaxSet", TRUE), GasCorrection("MP") >>,
      << GasCorrection("MP"), AqueousCorrection("MP") >> }

Engines ==
    { CorrectionsList(l, FALSE) : l \in RuleLists }
    \cup { CorrectionsList(<< GasCorrection("MP"), AqueousCorrection("MP") >>, TRUE),
           CorrectionsList(<< AnionCorrection("MP", TRUE),
                              UCorrection("MP", "MPRelaxSet", "Advanced") >>, TRUE),
           CorrectionsList(<< AnionCorrection("MP", TRUE),
                              AnionCorrection("MP", FALSE) >>, TRUE) }
    \cup { MaterialsProjectCompatibility("Advanced", TRUE, FALSE),
           MaterialsProjectCompatibility("Advanced", TRUE, TRUE),
           MaterialsProjectCompatibility("GGA", FALSE, FALSE),
           MITAqueousCompatibility("Advanced", TRUE, FALSE) }
    \cup { MaterialsProjectAqueousCompatibility(clean) : clean \in BOOLEAN }

\* The rule lists evaluated by get_corrections_dict alone: those above, the
\* presets' lists, and lists in which two rules have the same label
EvaluatedRuleLists ==
    RuleLists
    \cup { MaterialsProjectCompatibility("Advanced", TRUE, FALSE).corrections,
           MITCompatibility("Advanced", TRUE, FALSE).corrections,
           MITAqueousCompatibility("Advanced", TRUE, FALSE).corrections,
           << >>,
           << AnionCorrection("MP", TRUE), AnionCorrection("MP", FALSE) >>,
           << AnionCorrection("MP", FALSE), GasCorrection("MP"),
              AnionCorrection("MP", TRUE) >> }

\* The engines whose audit is called: get_explanation_dict is defined by
\* CorrectionsList and its subclasses
ListEngines == {engine \in Engines : engine.cls # "MaterialsProjectAqueousCompatibility"}

\* The entries and engines of the batches handed to process_entries
BatchEntries ==
    { e \in ArrivingEntries :
        \/ /\ e.entry_id \in {"o2", "o2-hf", "o2-symbols", "o2-nopotcar", "fe2o3-u"}
           /\ ~e.ea_present /\ e.correction = 0
        \/ /\ e.entry_id = "o2"
           /\ e.correction = -11000 }

BatchEngines ==
    { MaterialsProjectCompatibility("Advanced", TRUE, FALSE),
      MaterialsProjectCompatibility("Advanced", TRUE, TRUE),
      CorrectionsList(<< GasCorrection("MP") >>, FALSE),
      CorrectionsList(<< AnionCorrection("MP", TRUE),
                         UCorrection("MP", "MPRelaxSet", "Advanced") >>, FALSE),
      MaterialsProjectAqueousCompatibility(FALSE) }

\* ------------------------------------------------------- state machine
NoBatch == [engine |-> Engine("-", FALSE, <<>>), es |-> <<>>, recs |-> <<>>,
            exc |-> "none", out |-> <<>>, n |-> 0]
NoProbe == [op |-> "-", rules |-> <<>>, entry |-> 0, exc |-> "none", val |-> 0,
            warned |-> FALSE, pairs |-> <<>>]
NoAudit == [op |-> "-", n |-> 0]

\* Spec: one entry, processed by a sequence of engines
Init ==
    /\ \E e \in ArrivingEntries : entries = << e >>
    /\ calls = <<>>
    /\ ncalls = 0
    /\ batch = NoBatch
    /\ probe = NoProbe
    /\ audit = NoAudit

\* engine.process_entry(entries[i])
ProcessEntry(engine, i) ==
    /\ ncalls < MaxCalls
    /\ LET r == ProcessEntryCall(engine, entries[i])
       IN /\ entries' = [entries EXCEPT ![i] = r.post]
          /\ calls' = IF Len(calls) < 2 THEN Append(calls, r) ELSE << calls[2], r >>
    /\ ncalls' = ncalls + 1
    /\ UNCHANGED <<batch, probe, audit>>

Next == \E engine \in Engines : ProcessEntry(engine, 1)

Spec == Init /\ [][Next]_vars

\* SpecBatch: a batch of entries, processed by process_entries
InitBatch ==
    /\ \E n \in 0..MaxBatch : entries \in [1..n -> BatchEntries]
    /\ calls = <<>>
    /\ ncalls = 0
    /\ batch = NoBatch
    /\ probe = NoProbe
    /\ audit = NoAudit

\* engine.process_entries(entries)
ProcessEntries(engine) ==
    /\ batch.n < MaxRounds
    /\ batch' = ProcessEntriesCall(engine, entries) @@ [n |-> batch.n + 1]
    /\ entries' = batch'.es
    /\ UNCHANGED <<calls, ncalls, probe, audit>>

NextBatch == \E engine \in BatchEngines : ProcessEntries(engine)

SpecBatch == InitBatch /\ [][NextBatch]_vars

\* SpecRules: one entry, on which single rules and rule lists are evaluated
InitRules ==
    /\ \E e \in RuleEntries : entries = << e >>
    /\ calls = <<>>
    /\ ncalls = 0
    /\ batch = NoBatch
    /\ probe = NoProbe
    /\ audit = NoAudit

\* c.get_correction(entries[i])
EvalRule(c, i) ==
    /\ probe' = [op |-> "get_correction", rules |-> << c >>, entry |-> entries[i],
                 exc |-> GetCorrection(c, entries[i]).exc,
                 val |-> GetCorrection(c, entries[i]).val,
                 warned |-> (c.kind = "Anion" /\ AnionWarns(c, entries[i])),
                 pairs |-> <<>>]
    /\ UNCHANGED <<entries, calls, ncalls, batch, audit>>

\* CorrectionsList(corrections).get_corrections_dict(entries[i])
EvalRuleList(corrections, i) ==
    /\ probe' = [op |-> "get_corrections_dict", rules |-> corrections,
                 entry |-> entries[i],
                 exc |-> ListGetCorrectionsDict(corrections, entries[i], 1, <<>>).exc,
                 val |-> 0, warned |-> FALSE,
                 pairs |-> ListGetCorrectionsDict(corrections, entries[i], 1, <<>>).pairs]
    /\ UNCHANGED <<entries, calls, ncalls, batch, audit>>

NextRules ==
    \/ \E c \in Rules : EvalRule(c, 1)
    \/ \E corrections \in EvaluatedRuleLists : EvalRuleList(corrections, 1)

SpecRules == InitRules /\ [][NextRules]_vars

\* SpecExplain: one entry, audited by a sequence of engines
\* engine.get_explanation_dict(entries[i])
GetExplanationDict(engine, i) ==
    /\ audit.n < MaxAudits
    /\ audit' = GetExplanationDictCall(engine, entries[i]) @@ [n |-> audit.n + 1]
    /\ entries' = [entries EXCEPT ![i] = audit'.post]
    /\ UNCHANGED <<calls, ncalls, batch, probe>>

\* engine.explain(entries[i])
Explain(engine, i) ==
    /\ audit.n < MaxAudits
    /\ audit' = ExplainCall(engine, entries[i]) @@ [n |-> audit.n + 1]
    /\ entries' = [entries EXCEPT ![i] = audit'.post]
    /\ UNCHANGED <<calls, ncalls, batch, probe>>

NextExplain ==
    \/ \E engine \in ListEngines : GetExplanationDict(engine, 1)
    \/ \E engine \in Engines : Explain(engine, 1)

SpecExplain == Init /\ [][NextExplain]_vars

\* SpecEngine: one or two entries, on which the four operations of an engine
\* are called in any order; MaxCalls bounds the process_entry and
\* process_entries calls together
EngineEntries ==
    { e \in ArrivingEntries :
        \/ /\ e.entry_id = "fe2o3-u"
           /\ ~e.ea_present /\ e.correction = 0
        \/ /\ e.entry_id = "o2"
           /\ e.correction = -11000 }

EngineSet ==
    { MaterialsProjectCompatibility("Advanced", TRUE, FALSE),
      CorrectionsList(<< GasCorrection("MP") >>, FALSE),
      MaterialsProjectAqueousCompatibility(FALSE) }

InitEngine ==
    /\ \E n \in 1..2 : entries \in [1..n -> EngineEntries]
    /\ calls = <<>>
    /\ ncalls = 0
    /\ batch = NoBatch
    /\ probe = NoProbe
    /\ audit = NoAudit

\* engine.get_corrections_dict(entries[i]); the entry is recorded by its
\* index in the caller's list
GetCorrectionsDictOf(engine, i) ==
    /\ probe' = [op |-> "Compatibility.get_corrections_dict",
                 rules |-> engine.corrections, entry |-> i,
                 exc |-> GetCorrectionsDict(engine, entries[i]).exc,
                 val |-> 0, warned |-> FALSE,
                 pairs |-> GetCorrectionsDict(engine, entries[i]).pairs]
    /\ UNCHANGED <<entries, calls, ncalls, batch, audit>>

\* engine.validate_corrections(entries[i])
ValidateCorrectionsOf(engine, i) ==
    /\ probe' = [op |-> "Compatibility.validate_corrections",
                 rules |-> engine.corrections, entry |-> i,
                 exc |-> "none", val |-> 0,
                 warned |-> ValidateCorrections(entries[i]).warned,
                 pairs |-> <<>>]
    /\ entries' = [entries EXCEPT ![i] = ValidateCorrections(entries[i]).entry]
    /\ UNCHANGED <<calls, ncalls, batch, audit>>

NextEngine ==
    \/ \E engine \in EngineSet, i \in DOMAIN entries : GetCorrectionsDictOf(engine, i)
    \/ \E engine \in EngineSet, i \in DOMAIN entries : ValidateCorrectionsOf(engine, i)
    \/ \E engine \in EngineSet, i \in DOMAIN entries :
          ncalls + batch.n < MaxCalls /\ ProcessEntry(engine, i)
    \/ \E engine \in EngineSet :
          ncalls + batch.n < MaxCalls /\ ProcessEntries(engine)

SpecEngine == InitEngine /\ [][NextEngine]_vars

\* ============================================================ claims
HasLast == Len(calls) >= 1
Last == calls[Len(calls)]
HasPrev == Len(calls) = 2
Prev == calls[1]

Range(seq) == {seq[i] : i \in 1..Len(seq)}

\* the ledger as the caller reads it: absent, or the nested mapping
SameAdjustments(e1, e2) ==
    /\ e1.correction = e2.correction
    /\ e1.ea_present = e2.ea_present
    /\ e1.ea = e2.ea

\* the (source, label) pairs recorded in an entry's ledger
Recorded(e) == UNION {{<<src, k>> : k \in DOMAIN e.ea[src]} : src \in DOMAIN e.ea}

\* Invariant I1 on one entry
I1(e) == e.correction = SumFcn([src \in DOMAIN e.ea |-> SumFcn(e.ea[src])])

\* the outcome of the first rule of the list, in evaluation order, that
\* raises for the entry ("none" when every rule returns)
RECURSIVE FirstFailure(_, _, _)
FirstFailure(corrections, entry, i) ==
    IF i > Len(corrections) THEN "none"
    ELSE IF GetCorrection(corrections[i], entry).exc # "none"
         THEN GetCorrection(corrections[i], entry).exc
         ELSE FirstFailure(corrections, entry, i + 1)

\* C1 (as claimed): with clean=False, a second process_entry by the same
\* engine right after a successful first one that recorded a nonzero
\* adjustment returns the entry and leaves correction and ledger as the
\* first call left them.
C1_IdempotentReapplication ==
    ( /\ HasPrev
      /\ Prev.engine = Last.engine
      /\ ~Last.engine.clean
      /\ Prev.ret = "entry"
      /\ \E i \in 1..Len(Prev.cd.pairs) : Prev.cd.pairs[i].v # 0 )
    => ( /\ Last.ret = "entry"
         /\ SameAdjustments(Last.post, Prev.post) )

\* C2 (as claimed): with clean=False, when the ledger holds under the
\* engine's own source key a label with value V and the rule set computes
\* another value for that label, process_entry returns None.
C2_ConflictRejected ==
    ( /\ HasLast
      /\ ~Last.engine.clean
      /\ Last.cd.exc = "none"
      /\ \E i \in 1..Len(Last.cd.pairs) :
            /\ <<Last.engine.cls, Last.cd.pairs[i].k>> \in Recorded(Last.pre)
            /\ Last.pre.ea[Last.engine.cls][Last.cd.pairs[i].k] # Last.cd.pairs[i].v )
    => Last.ret = "None"

C4_I1Preserved ==
    [][\A i \in DOMAIN entries : I1(entries[i]) => I1(entries'[i])]_vars

\* C4 witness: an accepted merge, without cleaning, into a consistent ledger
\* that already held adjustments of another source
C4_Witness ==
    /\ HasLast
    /\ Last.ret = "entry"
    /\ ~Last.engine.clean
    /\ I1(Last.pre)
    /\ Last.pre.correction # 0
    /\ Last.post.correction # Last.pre.correction
    /\ Cardinality(DOMAIN Last.post.ea) >= 2

\* C5 (as claimed): a value recorded for a (source, label) pair is never
\* changed by a later process_entry call with clean=False, also when the
\* recorded value is zero.
C5_RecordedOnce ==
    ( /\ HasLast
      /\ ~Last.engine.clean )
    => \A p \in Recorded(Last.pre) :
          /\ p \in Recorded(Last.post)
          /\ Last.post.ea[p[1]][p[2]] = Last.pre.ea[p[1]][p[2]]

\* C6: when the evaluation of the rule set reaches a rule that raises
\* CompatibilityError, process_entry returns None and adds nothing: with
\* clean=False correction and ledger are unchanged, with clean=True they
\* are the reset ones (0, no ledger).
C6_RejectionAllOrNothing ==
    ( /\ HasLast
      /\ Last.engine.cls # "MaterialsProjectAqueousCompatibility"
      /\ FirstFailure(Last.engine.corrections,
                      IF Last.engine.clean
                      THEN WithAdjustments(Last.pre, 0, FALSE, EmptyDict)
                      ELSE Last.pre, 1) = "CompatibilityError" )
    => ( /\ Last.ret = "None"
         /\ IF Last.engine.clean
            THEN SameAdjustments(Last.post, WithAdjustments(Last.pre, 0, FALSE, EmptyDict))
            ELSE SameAdjustments(Last.post, Last.pre) )

\* C6 witness: a rejected call, without cleaning, on an entry with a ledger,
\* in which a rule evaluated before the failing one has a nonzero value
C6_Witness ==
    /\ HasLast
    /\ ~Last.engine.clean
    /\ Last.pre.ea_present /\ Last.pre.correction # 0
    /\ Last.ret = "None"
    /\ Len(Last.engine.corrections) >= 2
    /\ GetCorrection(Last.engine.corrections[1], Last.pre).exc = "none"
    /\ GetCorrection(Last.engine.corrections[1], Last.pre).val # 0
    /\ GetCorrection(Last.engine.corrections[2], Last.pre).exc = "CompatibilityError"

\* ---- process_entries (SpecBatch)
BatchDone == batch.n > 0

\* the entry that the rules of a call see: the entry after the reset
Seen(r) ==
    IF r.engine.clean THEN WithAdjustments(r.pre, 0, FALSE, EmptyDict) ELSE r.pre

\* the exception with which the rule set of a call fails, "none" if none
RuleFailure(r) ==
    IF r.engine.cls = "MaterialsProjectAqueousCompatibility" THEN "none"
    ELSE FirstFailure(r.engine.corrections, Seen(r), 1)

\* the merge of a call meets a label recorded with a conflicting value
Conflict(r) ==
    /\ RuleFailure(r) = "none"
    /\ MergeCorrections(r.engine.cls, Seen(r),
                        GetCorrectionsDict(r.engine, Seen(r)).pairs, 1).exc
          = "CompatibilityError"

C8_BatchOrder ==
    (BatchDone /\ batch.exc = "none") =>
        /\ Range(batch.out) = {i \in 1..Len(batch.es) : batch.recs[i].ret = "entry"}
        /\ \A j \in 1..(Len(batch.out) - 1) : batch.out[j] < batch.out[j + 1]

\* C8 witness: [A (accepted), B (rejected), C (accepted)] gives [A, C]
C8_Witness ==
    /\ BatchDone
    /\ batch.exc = "none"
    /\ Len(batch.es) = 3
    /\ batch.recs[2].ret = "None"
    /\ batch.out = <<1, 3>>

\* ---- process_entry (Spec), continued
\* C9: after an accepted process_entry with clean=True, correction is the
\* sum of the values of the mapping the rule set computes for the reset
\* entry, and the ledger is that mapping under the engine's own key and
\* nothing else (no ledger for an empty mapping).
C9_CleanIsFullReset ==
    ( /\ HasLast
      /\ Last.engine.clean
      /\ Last.ret = "entry" )
    => LET mapping == GetCorrectionsDict(Last.engine, Seen(Last)).pairs
       IN /\ Last.post.correction = SumSeq(OrdValues(mapping))
          /\ IF mapping = <<>>
             THEN ~Last.post.ea_present
             ELSE /\ Last.post.ea_present
                  /\ Last.post.ea = (Last.engine.cls :> OrdAsDict(mapping))

\* C9 witness: an accepted clean call with two adjustments on an entry that
\* arrived with a correction and a ledger of its own
C9_Witness ==
    /\ HasLast
    /\ Last.engine.clean
    /\ Last.ret = "entry"
    /\ Len(Last.cd.pairs) >= 2
    /\ Last.pre.correction # 0
    /\ Last.pre.ea_present /\ DOMAIN Last.pre.ea # {}

\* C10: when an entry's correction differs from the sum of its ledger on
\* entry to process_entry (clean=False), the warning is emitted, the
\* validation leaves correction and ledger alone, and the call computes and
\* merges the adjustments of the entry as it stands: it is rejected only by
\* a rule or by a conflicting adjustment.
C10_ValidationNonFatal ==
    ( /\ HasLast
      /\ ~Last.engine.clean
      /\ Last.pre.correction # DocumentedCorrection(Last.pre) )
    => LET cd == GetCorrectionsDict(Last.engine, Last.pre)
           merged == MergeCorrections(Last.engine.cls, Last.pre, cd.pairs, 1)
       IN /\ Last.warned
          /\ SameAdjustments(Last.validated, Last.pre)
          /\ Last.cd = cd
          /\ cd.exc = "none" =>
                /\ SameAdjustments(Last.post, merged.entry)
                /\ Last.ret = (IF merged.exc = "none" THEN "entry" ELSE "None")
          /\ cd.exc # "none" => SameAdjustments(Last.post, Last.pre)
          /\ Last.ret = "None" =>
                (cd.exc = "CompatibilityError" \/ merged.exc = "CompatibilityError")

\* C10 witness: an entry with a correction of unknown provenance is warned
\* about and still gets its adjustments merged
C10_Witness ==
    /\ HasLast
    /\ ~Last.engine.clean
    /\ Last.warned
    /\ Last.ret = "entry"
    /\ Last.post.correction # Last.pre.correction
    /\ Last.post.ea_present

\* ---- the audit (SpecExplain)
AuditDone == audit.n > 0

\* the value recorded in an entry's ledger for a label under a source key,
\* 0 when none is recorded
RecordedValue(e, src, k) ==
    IF e.ea_present /\ src \in DOMAIN e.ea /\ k \in DOMAIN e.ea[src]
    THEN e.ea[src][k] ELSE 0

\* C11 (as claimed): get_explanation_dict and explain leave the entry's
\* correction and ledger as they were before the call.
C11_AuditDoesNotMutate ==
    AuditDone => SameAdjustments(audit.post, audit.pre)

\* C12 (as claimed): for an entry that a rule of the set rejects with
\* CompatibilityError, get_explanation_dict does not raise and returns a
\* record whose corrected energy is None and whose rule values are all zero.
C12_RejectedEntrySurfaced ==
    ( /\ AuditDone
      /\ audit.op = "get_explanation_dict"
      /\ RuleFailure(audit) = "CompatibilityError" )
    => ( /\ audit.exc = "none"
         /\ audit.corrected_none
         /\ \A i \in 1..Len(audit.corrections) : audit.corrections[i].value = 0 )

\* C13 (as claimed, for rule sets with clean=True): for an entry that the
\* process_entry call of get_explanation_dict accepts, the value reported for
\* each rule is the value that call recorded for the rule's label (0 when
\* none was recorded), and corrected_energy - uncorrected_energy is the sum
\* of the reported values.
C13_AuditAgreesWithProcessEntry ==
    ( /\ AuditDone
      /\ audit.op = "get_explanation_dict"
      /\ audit.engine.clean
      /\ audit.centry = "entry" )
    => ( /\ audit.exc = "none"
         /\ \A i \in 1..Len(audit.corrections) :
               audit.corrections[i].value
                  = RecordedValue(audit.post, audit.engine.cls, audit.corrections[i].name)
         /\ audit.corrected_energy - audit.uncorrected_energy
               = SumSeq([i \in 1..Len(audit.corrections) |-> audit.corrections[i].value]) )

\* ---- the rules (SpecRules)
RuleEvaluated == probe.op = "get_correction"
ListEvaluated == probe.op = "get_corrections_dict"

\* the rule of a single evaluation
ProbeRule == probe.rules[1]

\* the value of the i-th rule of the evaluated list for the entry
RuleValue(i) == GetCorrection(probe.rules[i], probe.entry).val
RuleLabel(i) == RuleStr(probe.rules[i])

ProbeTable == Config(ProbeRule.config).CompoundEnergies

\* C15 (as claimed): the gas rule returns the table value of the entry's
\* reduced formula times the number of formula units, minus
\* uncorrected_energy; 0 for a formula that is not in the table.
C15_GasPerFormulaUnit ==
    (RuleEvaluated /\ ProbeRule.kind = "Gas") =>
        /\ probe.exc = "none"
        /\ probe.val =
              IF ReducedFormula(probe.entry.composition) \in DOMAIN ProbeTable
              THEN ProbeTable[ReducedFormula(probe.entry.composition)]
                      * FormulaUnits(probe.entry.composition)
                   - probe.entry.uncorrected_energy
              ELSE 0

\* C15 (amended): the gas rule returns the table value of the entry's
\* reduced formula times the number of atoms of the composition, minus
\* uncorrected_energy (table value -4 for "O2", composition O4,
\* uncorrected_energy -9 gives -7); 0 for a formula that is not in the table.
\* The entry's correction and ledger play no part.
C15_GasPerAtom ==
    (RuleEvaluated /\ ProbeRule.kind = "Gas") =>
        /\ probe.exc = "none"
        /\ probe.val =
              IF ReducedFormula(probe.entry.composition) \in DOMAIN ProbeTable
              THEN ProbeTable[ReducedFormula(probe.entry.composition)]
                      * NumAtoms(probe.entry.composition)
                   - probe.entry.uncorrected_energy
              ELSE 0
        /\ (probe.entry.composition = "O4" /\ ProbeTable["O2"] = -4000000
              /\ probe.entry.uncorrected_energy = -9000000) => probe.val = -7000000

\* C15 witness: the table value -4 for "O2", two formula units (O4) with
\* uncorrected_energy -9
C15_Witness ==
    /\ RuleEvaluated
    /\ ProbeRule.kind = "Gas"
    /\ probe.entry.composition = "O4"
    /\ ProbeTable["O2"] = -4000000
    /\ probe.entry.uncorrected_energy = -9000000
    /\ probe.entry.correction # 0
    /\ probe.val = -7000000

\* ---- the Hubbard rule in process_entry (Spec)
\* the Hubbard parameter the rule expects for an element of the entry: the
\* one listed for it in the sub-table of the most electronegative element,
\* 0 when none is listed
ExpectedU(c, entry, sym) ==
    DictGet(DictGet(USettings(c), MostElectroneg(entry.composition), EmptyDict), sym, 0)

\* for some element of the composition the recorded Hubbard parameter (0
\* when not recorded) differs from the expected one
HubbardMismatch(c, entry) ==
    \E sym \in CompElements(entry.composition) :
        DictGet(entry.hubbards, sym, 0) # ExpectedU(c, entry, sym)

\* the positions of the Hubbard rules of the last call's rule set that find
\* a mismatch in the entry
MismatchedRules ==
    {j \in 1..Len(Last.engine.corrections) :
        /\ Last.engine.corrections[j].kind = "U"
        /\ HubbardMismatch(Last.engine.corrections[j], Last.pre)}

\* a rule of the last call's rule set before position j raises an exception
\* other than CompatibilityError for the entry
RaisesBefore(j) ==
    \E i \in 1..(j - 1) :
        GetCorrection(Last.engine.corrections[i], Seen(Last)).exc
            \in {"ValueError", "KeyError"}

\* C16 (as claimed): for an entry with a Hubbard mismatch the Hubbard rule
\* raises CompatibilityError, and process_entry of a rule set that contains
\* the rule returns None whatever the other rules do.
C16_MismatchRejected ==
    HasLast =>
        \A j \in MismatchedRules :
            /\ UGetCorrection(Last.engine.corrections[j], Seen(Last)).exc
                  = "CompatibilityError"
            /\ Last.ret = "None"

\* C16 (amended): for an entry with a Hubbard mismatch the Hubbard rule
\* raises CompatibilityError, and process_entry of a rule set that contains
\* the rule never returns the entry: it returns None, unless a rule
\* evaluated before the Hubbard rule raises an exception other than
\* CompatibilityError (the ValueError or KeyError of the potcar rule for an
\* entry without method metadata), which leaves process_entry instead.
\* Either way nothing is added to correction or ledger.
C16_MismatchNeverAccepted ==
    HasLast =>
        \A j \in MismatchedRules :
            /\ UGetCorrection(Last.engine.corrections[j], Seen(Last)).exc
                  = "CompatibilityError"
            /\ Last.ret # "entry"
            /\ (Last.ret = "raise") <=> RaisesBefore(j)
            /\ Last.ret = "raise" => Last.exc \in {"ValueError", "KeyError"}
            /\ SameAdjustments(Last.post, Seen(Last))

\* C16 witness: an entry computed without U where the preset expects one is
\* rejected although the rules before the Hubbard rule accept it, one of
\* them with a nonzero value
C16_Witness ==
    /\ HasLast
    /\ MismatchedRules # {}
    /\ Last.pre.hubbards = EmptyDict
    /\ Last.ret = "None"
    /\ \E j \in MismatchedRules :
          /\ \A i \in 1..(j - 1) :
                GetCorrection(Last.engine.corrections[i], Seen(Last)).exc = "none"
          /\ \E i \in 1..(j - 1) :
                GetCorrection(Last.engine.corrections[i], Seen(Last)).val # 0

\* ---- the rules (SpecRules), continued
\* C17 (as claimed): an entry that declares a run type other than "GGA" and
\* "GGA+U" fails the Hubbard rule with CompatibilityError, whatever its
\* Hubbard parameters and composition.
C17_UnsupportedRunTypeFails ==
    ( /\ RuleEvaluated
      /\ ProbeRule.kind = "U"
      /\ probe.entry.run_type \notin {"absent", "GGA", "GGA+U"} )
    => probe.exc = "CompatibilityError"

\* the oxide table of the evaluated anion rule, the oxygen count of the
\* entry, and the oxygen contribution of the returned value (the value less
\* the sulfur contribution)
ProbeOxideTable == Config(ProbeRule.config).OxideCorrections
ProbeOxygenCount == CompAmt(probe.entry.composition, "O")
ProbeOxygenPart == probe.val - AnionSulfur(ProbeRule, probe.entry)

\* the table key the formula fallback takes for a reduced formula
FallbackFamily(rform) ==
    IF rform \in {"Li2O2", "Na2O2", "K2O2", "Cs2O2", "Rb2O2", "BeO2", "MgO2", "CaO2",
                  "SrO2", "BaO2"} THEN "peroxide"
    ELSE IF rform \in {"LiO2", "NaO2", "KO2", "RbO2", "CsO2"} THEN "superoxide"
    ELSE IF rform \in {"LiO3", "NaO3", "KO3", "NaO5"} THEN "ozonide"
    ELSE "oxide"

\* C18: with peroxide corrections enabled, no supplied oxide subtype and no
\* structure, the oxygen contribution of the anion rule for a multi-element
\* oxygen-bearing entry is one table value times the oxygen count: the
\* "peroxide" one for a formula of the peroxide list, else the "superoxide"
\* one for a formula of the superoxide list, else the "ozonide" one for a
\* formula of the ozonide list, else the "oxide" one; the warning is emitted.
C18_OxideFallbackOrdering ==
    ( /\ RuleEvaluated
      /\ ProbeRule.kind = "Anion"
      /\ ProbeRule.flag
      /\ probe.entry.oxide_type = "absent"
      /\ ~probe.entry.structure.present
      /\ "O" \in CompElements(probe.entry.composition)
      /\ Cardinality(CompElements(probe.entry.composition)) > 1 )
    => ( /\ probe.exc = "none"
         /\ probe.warned
         /\ ProbeOxygenPart
               = ProbeOxideTable[FallbackFamily(ReducedFormula(probe.entry.composition))]
                    * ProbeOxygenCount )

\* C18 witness: Li2O2 without classification gets the peroxide value, which
\* differs from the oxide value, for its two oxygen atoms
C18_Witness ==
    /\ RuleEvaluated
    /\ ProbeRule.kind = "Anion"
    /\ ProbeRule.flag
    /\ probe.entry.oxide_type = "absent"
    /\ ~probe.entry.structure.present
    /\ ReducedFormula(probe.entry.composition) = "Li2O2"
    /\ probe.warned
    /\ probe.val = ProbeOxideTable["peroxide"] * 2
    /\ probe.val # ProbeOxideTable["oxide"] * 2

\* C19 (as claimed): with peroxide corrections enabled and a supplied oxide
\* subtype "hydroxide", the oxygen contribution of the anion rule is the
\* "oxide" table value times the oxygen count, for every table.
C19_HydroxideIsOxide ==
    ( /\ RuleEvaluated
      /\ ProbeRule.kind = "Anion"
      /\ ProbeRule.flag
      /\ probe.entry.oxide_type = "hydroxide"
      /\ Cardinality(CompElements(probe.entry.composition)) > 1 )
    => ( /\ probe.exc = "none"
         /\ ProbeOxygenPart = ProbeOxideTable["oxide"] * ProbeOxygenCount )

\* the method identifiers the potcar rule reads from an entry: the hashes
\* of potcar_spec in hash mode; in symbol mode the symbols of potcar_spec
\* or, without potcar_spec, those of potcar_symbols
HasPotcarSpec(entry) == entry.potcar_spec.present /\ Len(entry.potcar_spec.items) > 0

CarriesIdentifiers(c, entry) ==
    IF c.flag THEN HasPotcarSpec(entry)
    ELSE HasPotcarSpec(entry) \/ entry.potcar_symbols.present

DeclaredIdentifiers(c, entry) ==
    IF c.flag
    THEN {entry.potcar_spec.items[i].hash : i \in 1..Len(entry.potcar_spec.items)}
    ELSE IF HasPotcarSpec(entry)
         THEN {entry.potcar_spec.items[i].titel[2] : i \in 1..Len(entry.potcar_spec.items)}
         ELSE {entry.potcar_symbols.items[i][2] : i \in 1..Len(entry.potcar_symbols.items)}

\* the identifiers the preset expects for the elements of the composition
ExpectedIdentifiers(c, entry) ==
    LET settings == PotcarSettings(c.input_set)
        table == IF c.flag THEN settings.hash ELSE settings.symbol
    IN {table[el] : el \in CompElements(entry.composition)}

\* C20: when the entry carries the method identifiers the rule reads, the
\* potcar rule returns 0 if the set of expected identifiers of the elements
\* of the composition equals the set of declared identifiers, and raises
\* CompatibilityError otherwise (an identifier missing, extra or different).
C20_PotcarSetEquality ==
    ( /\ RuleEvaluated
      /\ ProbeRule.kind = "Potcar"
      /\ CarriesIdentifiers(ProbeRule, probe.entry) )
    => IF ExpectedIdentifiers(ProbeRule, probe.entry)
             = DeclaredIdentifiers(ProbeRule, probe.entry)
       THEN probe.exc = "none" /\ probe.val = 0
       ELSE probe.exc = "CompatibilityError"

\* C20 witness: an entry that declares every expected identifier and one
\* more is rejected
C20_Witness ==
    /\ RuleEvaluated
    /\ ProbeRule.kind = "Potcar"
    /\ CarriesIdentifiers(ProbeRule, probe.entry)
    /\ ExpectedIdentifiers(ProbeRule, probe.entry)
          \subseteq DeclaredIdentifiers(ProbeRule, probe.entry)
    /\ ExpectedIdentifiers(ProbeRule, probe.entry)
          # DeclaredIdentifiers(ProbeRule, probe.entry)
    /\ probe.exc = "CompatibilityError"

\* ---- the aqueous free-energy engine in process_entry (Spec)
\* the entry's ledger holds an adjustment recorded by MaterialsProjectCompatibility
ProcessedByMaterialsProject(e) ==
    /\ e.ea_present
    /\ "MaterialsProjectCompatibility" \in DOMAIN e.ea
    /\ DOMAIN e.ea["MaterialsProjectCompatibility"] # {}

\* C21 (as claimed): process_entry of MaterialsProjectAqueousCompatibility
\* never returns an entry whose ledger holds no adjustment recorded by
\* MaterialsProjectCompatibility.
C21_UnprocessedEntryRejected ==
    ( /\ HasLast
      /\ Last.engine.cls = "MaterialsProjectAqueousCompatibility"
      /\ ~ProcessedByMaterialsProject(Last.pre) )
    => Last.ret # "entry"

\* ---- the rules (SpecRules), continued
\* C22: the Hubbard rule built with compat_type "GGA" raises
\* CompatibilityError for every entry that records a nonzero Hubbard
\* parameter for an element of its composition, and returns 0 for every
\* entry it accepts.
C22_GGAExcludesHubbardEntries ==
    ( /\ RuleEvaluated
      /\ ProbeRule.kind = "U"
      /\ ProbeRule.compat_type = "GGA" )
    => ( /\ (\E sym \in CompElements(probe.entry.composition) :
                DictGet(probe.entry.hubbards, sym, 0) # 0)
             => probe.exc = "CompatibilityError"
         /\ probe.exc = "none" => probe.val = 0
         /\ probe.exc \in {"none", "CompatibilityError"} )

\* C22 witness: an Fe2O3 entry computed with the U that the "Advanced" rule
\* of the same preset expects, and that this rule accepts with a nonzero
\* value, is rejected by the "GGA" rule
C22_Witness ==
    /\ RuleEvaluated
    /\ ProbeRule.kind = "U"
    /\ ProbeRule.compat_type = "GGA"
    /\ probe.entry.composition = "Fe2O3"
    /\ DictGet(probe.entry.hubbards, "Fe", 0) # 0
    /\ probe.exc = "CompatibilityError"
    /\ UGetCorrection(UCorrection(ProbeRule.config, ProbeRule.input_set, "Advanced"),
                      probe.entry).exc = "none"
    /\ UGetCorrection(UCorrection(ProbeRule.config, ProbeRule.input_set, "Advanced"),
                      probe.entry).val # 0

\* ---- the frame of the engine (SpecEngine)
\* the fields of an entry other than correction and the ledger
FrameOf(e) ==
    [entry_id |-> e.entry_id, composition |-> e.composition,
     uncorrected_energy |-> e.uncorrected_energy,
     run_type |-> e.run_type, hubbards |-> e.hubbards,
     potcar_spec |-> e.potcar_spec, potcar_symbols |-> e.potcar_symbols,
     oxide_type |-> e.oxide_type, sulfide_type |-> e.sulfide_type,
     structure |-> e.structure]

\* C23: no get_corrections_dict, validate_corrections, process_entry or
\* process_entries call changes an entry's uncorrected_energy, composition,
\* parameters or any other field than correction and the ledger, and no call
\* adds or removes an entry of the caller's list.
C23_EngineFrame ==
    [][ /\ DOMAIN entries' = DOMAIN entries
        /\ \A i \in DOMAIN entries : FrameOf(entries'[i]) = FrameOf(entries[i]) ]_vars

\* C23 witness: process_entry and process_entries have both run, with a
\* reset, on entries of which one carries a classification in its data and
\* parameters, and its correction has changed
C23_Witness ==
    /\ HasLast
    /\ BatchDone
    /\ batch.engine.clean
    /\ probe.op = "Compatibility.validate_corrections"
    /\ \E i \in DOMAIN entries :
          /\ entries[i].oxide_type = "oxide"
          /\ entries[i].hubbards # EmptyDict
          /\ entries[i].correction # 0
          /\ entries[i].ea_present

\* ---- the audit (SpecExplain), continued
\* C24: when get_explanation_dict returns, its corrections list has one
\* record per rule of the set, the i-th record carrying the label of the
\* i-th rule, also for rules whose value is zero.
C24_AuditOrdering ==
    ( /\ AuditDone
      /\ audit.op = "get_explanation_dict"
      /\ audit.exc = "none" )
    => ( /\ Len(audit.corrections) = Len(audit.engine.corrections)
         /\ \A i \in 1..Len(audit.corrections) :
               audit.corrections[i].name = RuleStr(audit.engine.corrections[i]) )

\* C24 witness: a returned report of a set of four rules in which a rule
\* with value zero stands between rules with nonzero values
C24_Witness ==
    /\ AuditDone
    /\ audit.op = "get_explanation_dict"
    /\ audit.exc = "none"
    /\ Len(audit.corrections) >= 4
    /\ \E i, j, k \in 1..Len(audit.corrections) :
          /\ i < j /\ j < k
          /\ audit.corrections[i].value # 0
          /\ audit.corrections[j].value = 0
          /\ audit.corrections[k].value # 0

\* ---- the order and the labels of the rules in process_entry (Spec)
\* the rule lists that hold the rules of a list in any order
Reorderings(corrections) ==
    { [i \in 1..Len(corrections) |-> corrections[p[i]]] :
        p \in Permutations(1..Len(corrections)) }

\* C25 (as claimed): process_entry by a rule set that holds the rules of the
\* last call's set in another order accepts the entry if and only if the
\* last call accepted it, and on acceptance leaves the same correction and
\* the same ledger contents.
C25_RuleOrderIrrelevant ==
    ( /\ HasLast
      /\ Last.engine.cls # "MaterialsProjectAqueousCompatibility" )
    => \A reordered \in Reorderings(Last.engine.corrections) :
          LET other == ProcessEntryCall(
                           Engine(Last.engine.cls, Last.engine.clean, reordered), Last.pre)
          IN /\ (other.ret = "entry") <=> (Last.ret = "entry")
             /\ Last.ret = "entry" => SameAdjustments(other.post, Last.post)

\* C27 (as claimed): after an accepted process_entry with clean=True the
\* entry's correction is the sum of get_correction over all rules of the
\* set, and each rule with a nonzero value has its value recorded in the
\* ledger under its label, also when two rules have the same label.
C27_AppliedIsSumOfRules ==
    ( /\ HasLast
      /\ Last.engine.cls # "MaterialsProjectAqueousCompatibility"
      /\ Last.engine.clean
      /\ Last.ret = "entry" )
    => ( /\ Last.post.correction
               = SumSeq([i \in 1..Len(Last.engine.corrections) |->
                            GetCorrection(Last.engine.corrections[i], Seen(Last)).val])
         /\ \A i \in 1..Len(Last.engine.corrections) :
               LET value == GetCorrection(Last.engine.corrections[i], Seen(Last)).val
               IN value # 0 =>
                     RecordedValue(Last.post, Last.engine.cls,
                                   RuleStr(Last.engine.corrections[i])) = value )

\* the aqueous rules of the last call's rule set
AqueousRules ==
    {j \in 1..Len(Last.engine.corrections) : Last.engine.corrections[j].kind = "Aqueous"}

\* C26 (as claimed): after an accepted process_entry by a rule set that
\* contains the aqueous rule, an entry whose reduced formula is H2 or H2O and
\* is listed in the rule's aqueous reference table has final energy
\* (uncorrected_energy + correction) equal to the table value times its atom
\* count, whatever the other rules of the set contribute.
C26_AnchorsPinned ==
    ( /\ HasLast
      /\ Last.ret = "entry" )
    => \A j \in AqueousRules :
          LET table == Config(Last.engine.corrections[j].config).AqueousCompoundEnergies
              rform == ReducedFormula(Last.pre.composition)
          IN (rform \in {"H2", "H2O"} /\ rform \in DOMAIN table)
             => Energy(Last.post) = table[rform] * NumAtoms(Last.pre.composition)

\* ---- the ledger in process_entry (Spec), continued
\* the source keys of an entry's ledger other than the given one
OtherSources(e, cls) == DOMAIN e.ea \ {cls}

\* C28: a process_entry call with clean=False, accepted or not, leaves the
\* ledger's source keys other than the engine's own class name, and the
\* labels and values stored under them, as they were.
C28_OtherSourcesUntouched ==
    ( /\ HasLast
      /\ ~Last.engine.clean )
    => ( /\ OtherSources(Last.post, Last.engine.cls) = OtherSources(Last.pre, Last.engine.cls)
         /\ \A src \in OtherSources(Last.pre, Last.engine.cls) :
               Last.post.ea[src] = Last.pre.ea[src] )

\* C28 witness: an accepted call adds the engine's own source key to a
\* ledger that held adjustments of another source only
C28_Witness ==
    /\ HasLast
    /\ ~Last.engine.clean
    /\ Last.ret = "entry"
    /\ OtherSources(Last.pre, Last.engine.cls) # {}
    /\ Last.engine.cls \notin DOMAIN Last.pre.ea
    /\ Last.engine.cls \in DOMAIN Last.post.ea
    /\ Last.post.correction # Last.pre.correction

\* C29: with clean=True, an entry that process_entry rejects is left with
\* correction 0 and no ledger, whatever correction and ledger it had before
\* the call.
C29_CleanedBeforeRejection ==
    ( /\ HasLast
      /\ Last.engine.clean
      /\ Last.ret = "None" )
    => ( /\ Last.post.correction = 0
         /\ ~Last.post.ea_present
         /\ Last.post.ea = EmptyDict
         /\ entries[1] = Last.post )

\* C29 witness: an entry that arrived with a correction and a ledger is
\* rejected by a rule of a set with clean=True after another rule of the set
\* returned a nonzero value
C29_Witness ==
    /\ HasLast
    /\ Last.engine.clean
    /\ Last.ret = "None"
    /\ Last.pre.correction # 0
    /\ Last.pre.ea_present /\ DOMAIN Last.pre.ea # {}
    /\ \E j \in 1..Len(Last.engine.corrections) :
          /\ GetCorrection(Last.engine.corrections[j], Seen(Last)).exc = "none"
          /\ GetCorrection(Last.engine.corrections[j], Seen(Last)).val # 0

\* C30: with clean=True the validation of process_entry sees the entry after
\* the reset (correction 0, no ledger) and the ledger-consistency warning is
\* not emitted, also for an entry that arrives with a correction that differs
\* from the sum of its ledger.
C30_ValidationAfterReset ==
    ( /\ HasLast
      /\ Last.engine.clean )
    => ( /\ ~Last.warned
         /\ Last.validated.correction = 0
         /\ ~Last.validated.ea_present )

\* C30 witness: a call with clean=True on an entry whose correction differs
\* from the sum of its ledger, for which validate_corrections would warn
C30_Witness ==
    /\ HasLast
    /\ Last.engine.clean
    /\ Last.pre.ea_present
    /\ Last.pre.correction # DocumentedCorrection(Last.pre)
    /\ ValidateCorrections(Last.pre).warned
    /\ ~Last.warned

====
